---- MODULE Spec2Model ----
(***************************************************************************)
(* Publish pipeline of social-media-automation: the post routes            *)
(* (src/src/routes/posts.js), the account routes                           *)
(* (src/src/routes/socialAccounts.js), the BullMQ queue 'post-scheduler'   *)
(* (src/unnamed/part_000) and the publishing worker                        *)
(* (src/src/jobs/postProcessor.js).                                        *)
(*                                                                         *)
(* Every await of a handler is a step of its own: the database, the queue  *)
(* and the other handlers may act between two awaits.  At most one HTTP    *)
(* request is in flight at a time; the worker runs up to `concurrency`     *)
(* job executions at once.                                                 *)
(***************************************************************************)
EXTENDS Integers, Sequences, FiniteSets, TLC

VARIABLES
    posts,      \* ContentPost table: post id -> row (the columns the worker and
                \* the routes read: userId, platforms, status; and publishedAt)
    accounts,   \* SocialAccount table: a set of rows
    jobs,       \* queue 'post-scheduler': job id -> job (with the processor's position)
    req,        \* the HTTP request in flight, or NoReq
    remote,     \* history: successful remote publishes per <<post id, platform>>
    nextPostId, \* next fresh ContentPost id
    nextJobId   \* next auto-generated job id of the queue

vars == <<posts, accounts, jobs, req, remote, nextPostId, nextJobId>>

(***************************************************************************)
(* Time.  The unit is the queue's backoff delay (2000 ms).  Every stored   *)
(* time (scheduledFor, publishedAt, expiresAt, a job's due time) is kept   *)
(* relative to the clock: the value t stands for the instant Date.now()+t, *)
(* so Date.now() itself is 0, and when the clock advances (Tick) every     *)
(* stored time goes down by one.  Times further back than Past are kept as *)
(* Past: the code only compares stored times with the clock.               *)
(***************************************************************************)

----------------------------------------------------------------------------
(* Bounds of the model *)

MaxPosts == 1
MaxAutoJobs == 1
MaxAhead == 2
\* posts due at once in the specification of the worker pool
PoolJobs == 6
\* expires_in of the token response, in clock units
ExpiresIn == 2

(* Program constants *)

\* postProcessor.js:129  concurrency: 5
Concurrency == 5
\* part_000:26  attempts: 3
Attempts == 3
\* part_000:29  backoff delay 2000 ms; the clock's unit is this delay
BackoffDelay == 1

\* Date.now() / new Date()
Now == 0
Past == Now - 1

\* null of a nullable DateTime column (scheduledFor, publishedAt, expiresAt)
NoTime == 99

Users == {"u1", "u2"}

\* the platforms the worker's switch knows, and the stubs among them
Platforms == {"LINKEDIN", "INSTAGRAM", "TIKTOK", "FACEBOOK"}
StubPlatforms == {"INSTAGRAM", "TIKTOK", "FACEBOOK"}
\* a platform name the switch has no case for
UnknownPlatform == "TWITTER"

\* the `platforms` arrays requests carry
PlatformLists == {<<"LINKEDIN">>, <<"LINKEDIN", "INSTAGRAM">>}

\* the `scheduledFor` values requests carry: absent, or a time
SchedInputs == {NoTime} \cup (Past..MaxAhead)

\* the profile ids LinkedIn answers the OAuth callback with
LinkedInProfiles == {"li1", "li2"}

\* `platforms` missing from the request body
Absent == <<"-">>

NoReq == [route |-> "none"]
NoSnap == [platforms |-> << >>, accounts |-> {}]
\* no call of publishToLinkedIn has been followed
NoCall == [media |-> FALSE, log |-> << >>, outcome |-> "-", account |-> "-"]

----------------------------------------------------------------------------
(* The queue (BullMQ) *)

KeyedJobId(p) == <<"post", p>>
AutoJobId(n) == <<"auto", n>>

\* A job: its payload's postId, its state, the attempts made, its score in
\* the delayed set (runAt; NoTime in any other state), and for an active job
\* the processor's position (pc) and locals (snap: the post as loaded;
\* results).

\* a job the queue holds and no worker has started yet
IsPending(j) == jobs[j].state \in {"waiting", "delayed"}
IsActive(j) == jobs[j].state = "active"

NewJob(p, delay) ==
    [postId |-> p,
     state |-> IF delay > 0 THEN "delayed" ELSE "waiting",
     runAt |-> IF delay > 0 THEN Now + delay ELSE NoTime,
     attemptsMade |-> 0,
     pc |-> "-",
     error |-> "-",
     snap |-> NoSnap,
     results |-> << >>,
     returnvalue |-> "-",
     call |-> NoCall]

\* Queue.add(name, data, {delay, jobId}): a job id the queue already holds
\* (in any state: completed and failed jobs are kept, removeOnComplete: 100,
\* removeOnFail: 50) makes the add a no-op.
QueueAdd(q, id, p, delay) ==
    IF id \in DOMAIN q
    THEN q
    ELSE [x \in DOMAIN q \cup {id} |-> IF x = id THEN NewJob(p, delay) ELSE q[x]]

\* Queue.removeRepeatable(name), called without repeat options: it looks for
\* a repeatable-job schedule of that name; the queue holds none (no job is
\* added with a repeat option), so the delayed and waiting jobs stay.  The
\* BullMQ version is not pinned in the repository: the call either returns
\* having removed nothing, or throws a TypeError on the missing repeat
\* options (the callers take that outcome as the parameter removeThrows).
QueueRemoveRepeatable(q, name) == q

\* backoff {type: 'fixed', delay}
BackoffFixed(attemptsMade) == BackoffDelay

\* backoff {type: 'exponential', delay}: 2^(attemptsMade - 1) * delay
Backoff(attemptsMade) == (2 ^ (attemptsMade - 1)) * BackoffDelay

\* a return value of status 'failed' taken for a failure of the job
CompleteUnlessFailed(job, rv) ==
    IF rv = "failed"
    THEN [job EXCEPT !.state = "delayed", !.pc = "-",
                     !.attemptsMade = job.attemptsMade + 1,
                     !.runAt = Now + BackoffDelay,
                     !.snap = NoSnap, !.results = << >>]
    ELSE [job EXCEPT !.state = "completed", !.pc = "-", !.returnvalue = rv,
                     !.snap = NoSnap, !.results = << >>]

\* the worker's processor returned: the queue moves the job to completed; of
\* the return value the model keeps the `status`
Complete(job, rv) ==
    [job EXCEPT !.state = "completed", !.pc = "-", !.returnvalue = rv,
                 !.snap = NoSnap, !.results = << >>]

\* a processor whose catch block swallows the error and returns
Swallow(job) ==
    [job EXCEPT !.state = "completed", !.pc = "-", !.returnvalue = "failed",
                 !.error = "-", !.snap = NoSnap, !.results = << >>]

\* a queue without an attempt ceiling
RetryForever(job) ==
    [job EXCEPT !.state = "delayed", !.pc = "-",
                 !.attemptsMade = job.attemptsMade + 1,
                 !.runAt = Now + BackoffDelay, !.error = "-",
                 !.snap = NoSnap, !.results = << >>]

\* the worker's processor threw: the queue counts the attempt and either
\* delays the job for a retry or, at the attempt ceiling, moves it to failed
Fail(job) ==
    LET made == job.attemptsMade + 1 IN
    IF made < Attempts
    THEN [job EXCEPT !.state = "delayed", !.pc = "-", !.attemptsMade = made,
                     !.runAt = Now + Backoff(made), !.error = "-",
                     !.snap = NoSnap, !.results = << >>]
    ELSE [job EXCEPT !.state = "failed", !.pc = "-", !.attemptsMade = made,
                     !.runAt = NoTime, !.error = "-",
                     !.snap = NoSnap, !.results = << >>]

\* a delayed job is due once its delay has elapsed
IsDue(job) == Now >= job.runAt

\* the worker takes a job only while one of its `concurrency` slots is free
\* a worker that takes a job however many it is running
AlwaysFree == TRUE

SlotFree == Cardinality({j \in DOMAIN jobs : IsActive(j)}) < Concurrency

----------------------------------------------------------------------------
(* The worker's processor (postProcessor.js) *)

PostExists(p) == p \in DOMAIN posts

\* the check of line 39 left out
NeverPublished(post) == FALSE

\* line 39
AlreadyPublished(post) == post.status = "PUBLISHED"

\* line 91
HasErrors(results) == \E i \in 1..Len(results) : results[i].status = "error"

\* an aggregation that never finds every platform failed
NeverAllFailed(results) == FALSE

\* `some` where line 92 has `every`
SomeFailed(results) == \E i \in 1..Len(results) : results[i].status = "error"

\* line 92
AllFailed(results) == \A i \in 1..Len(results) : results[i].status = "error"

\* lines 104-108
ReturnStatus(results) ==
    IF AllFailed(results) THEN "failed"
    ELSE IF HasErrors(results) THEN "partial_success" ELSE "success"

\* the loop left at the first error result
AccumulateUntilError(job, result) ==
    LET rs == Append(job.results, result) IN
    [job EXCEPT !.results = rs,
                !.pc = IF Len(rs) < Len(job.snap.platforms) /\ result.status # "error"
                       THEN "publish" ELSE "update"]

\* a loop that lets the default case's throw escape to the catch block
AccumulateOrCrash(job, result) ==
    LET rs == Append(job.results, result) IN
    IF result.error = "not supported"
    THEN [job EXCEPT !.pc = "catch", !.error = "not supported"]
    ELSE [job EXCEPT !.results = rs,
                     !.pc = IF Len(rs) < Len(job.snap.platforms) THEN "publish" ELSE "update"]

\* lines 54, 78, 82-86: one result is pushed and the loop goes on; after the
\* last platform the status update follows
Accumulate(job, result) ==
    LET rs == Append(job.results, result) IN
    [job EXCEPT !.results = rs,
                !.pc = IF Len(rs) < Len(job.snap.platforms) THEN "publish" ELSE "update"]

\* a lookup that takes any loaded account, whatever its platform
AnyAccount(loaded, platform) == loaded

\* a LinkedIn publisher without the expiry check of line 136
PublisherOutcomesUnchecked(platform, account, t) ==
    IF platform = "LINKEDIN"
    THEN {[status |-> "success", error |-> "-", called |-> TRUE],
          [status |-> "error", error |-> "request failed", called |-> TRUE]}
    ELSE IF platform \in StubPlatforms
    THEN {[status |-> "error", error |-> "not yet implemented", called |-> FALSE]}
    ELSE {[status |-> "error", error |-> "not supported", called |-> FALSE]}

\* publishers whose stubs report a success
PublisherOutcomesStubOk(platform, account, t) ==
    IF platform = "LINKEDIN"
    THEN IF account.expiresAt # NoTime /\ t >= account.expiresAt
         THEN {[status |-> "error", error |-> "token expired", called |-> FALSE]}
         ELSE {[status |-> "success", error |-> "-", called |-> TRUE],
               [status |-> "error", error |-> "request failed", called |-> TRUE]}
    ELSE IF platform \in StubPlatforms
    THEN {[status |-> "success", error |-> "-", called |-> FALSE]}
    ELSE {[status |-> "error", error |-> "not supported", called |-> FALSE]}

\* publishToLinkedIn (lines 133-216), publishToInstagram/TikTok/Facebook
\* (lines 275-290) and the switch's default (line 75): what a publisher call
\* can end with at time t.  `called` records whether the call issued a
\* network request (axios, lines 147, 200, 225, 250, 267): the expiry check
\* of line 136 throws before the first one, the stubs throw at once.
PublisherOutcomes(platform, account, t) ==
    IF platform = "LINKEDIN"
    THEN IF account.expiresAt # NoTime /\ t >= account.expiresAt
         THEN {[status |-> "error", error |-> "token expired", called |-> FALSE]}
         ELSE {[status |-> "success", error |-> "-", called |-> TRUE],
               [status |-> "error", error |-> "request failed", called |-> TRUE]}
    ELSE IF platform \in StubPlatforms
    THEN {[status |-> "error", error |-> "not yet implemented", called |-> FALSE]}
    ELSE {[status |-> "error", error |-> "not supported", called |-> FALSE]}

\* line 136: account.expiresAt && new Date() >= account.expiresAt
TokenExpired(account, t) == account.expiresAt # NoTime /\ t >= account.expiresAt

\* a publisher that submits the post once the upload is registered
NextCallEager(media, log) ==
    IF log = << >> THEN "me"
    ELSE LET last == log[Len(log)] IN
         CASE last = "me" -> IF media THEN "getUserId" ELSE "ugcPosts"
           [] last = "getUserId" -> "registerUpload"
           [] last = "registerUpload" -> "ugcPosts"
           [] last = "readFile" -> "upload"
           [] OTHER -> "ugcPosts"

\* publishToLinkedIn (lines 147-204) and uploadMediaToLinkedIn (225-255):
\* the request that follows those of the log, each awaited before the next:
\* GET /me (147); with media, getUserId's GET /me (241, 267), POST
\* registerUpload (238), readFileSync (249), POST of the bytes (250); then
\* POST /ugcPosts (200)
NextCall(media, log) ==
    IF log = << >> THEN "me"
    ELSE LET last == log[Len(log)] IN
         CASE last = "me" -> IF media THEN "getUserId" ELSE "ugcPosts"
           [] last = "getUserId" -> "registerUpload"
           [] last = "registerUpload" -> "readFile"
           [] last = "readFile" -> "upload"
           [] OTHER -> "ugcPosts"

\* lines 48-50: the accounts `find` can return for the platform
FindAccount(loaded, platform) ==
    {a \in loaded : a.platform = platform /\ a.isActive}

\* the history of successful remote publishes: counted up to 2
RemoteCount(r, p, platform) ==
    IF <<p, platform>> \in DOMAIN r THEN r[<<p, platform>>] ELSE 0

CountUp(r, p, platform) ==
    [k \in DOMAIN r \cup {<<p, platform>>} |->
        IF k = <<p, platform>>
        THEN (IF RemoteCount(r, p, platform) < 2 THEN RemoteCount(r, p, platform) + 1 ELSE 2)
        ELSE r[k]]

\* line 110: a throw inside the processor's try is caught; `error` is what
\* was thrown
Throw(job, error) == [job EXCEPT !.pc = "catch", !.error = error]

\* BullMQ worker: a waiting job, or a delayed job that is due, becomes active
Pickup(j) ==
    /\ j \in DOMAIN jobs
    /\ \/ jobs[j].state = "waiting"
       \/ jobs[j].state = "delayed" /\ IsDue(jobs[j])
    /\ SlotFree
    /\ jobs' = [jobs EXCEPT ![j].state = "active", ![j].pc = "load",
                             ![j].runAt = NoTime]
    /\ UNCHANGED <<posts, accounts, req, remote, nextPostId, nextJobId>>

\* lines 22-44: findUnique with the user's active accounts, the not-found
\* throw and the already-published return
\* dbUp: whether the database answers this call
Load(j, dbUp) ==
    /\ j \in DOMAIN jobs
    /\ jobs[j].pc = "load"
    /\ LET job == jobs[j]
           p == job.postId IN
       \/ \* the query throws (persistence unavailable)
          /\ ~dbUp
          /\ jobs' = [jobs EXCEPT ![j] = Throw(job, "database")]
       \/ \* line 36
          /\ dbUp
          /\ ~PostExists(p)
          /\ jobs' = [jobs EXCEPT ![j] = Throw(job, "not found")]
       \/ /\ dbUp
          /\ PostExists(p)
          /\ AlreadyPublished(posts[p])
          /\ jobs' = [jobs EXCEPT ![j] = Complete(job, "already_published")]
       \/ /\ dbUp
          /\ PostExists(p)
          /\ ~AlreadyPublished(posts[p])
          /\ LET snap == [platforms |-> posts[p].platforms,
                          accounts |-> {a \in accounts :
                                          a.userId = posts[p].userId /\ a.isActive}] IN
             jobs' = [jobs EXCEPT ![j].snap = snap,
                                  ![j].results = << >>,
                                  ![j].pc = IF Len(snap.platforms) = 0
                                            THEN "update" ELSE "publish"]
    /\ UNCHANGED <<posts, accounts, req, remote, nextPostId, nextJobId>>

\* lines 47-88: one turn of the loop over post.platforms
PublishStep(j) ==
    /\ j \in DOMAIN jobs
    /\ jobs[j].pc = "publish"
    /\ LET job == jobs[j]
           platform == job.snap.platforms[Len(job.results) + 1]
           found == FindAccount(job.snap.accounts, platform) IN
       \/ /\ found = {}
          /\ jobs' = [jobs EXCEPT ![j] = Accumulate(job,
                        [platform |-> platform, status |-> "error",
                         error |-> "No active account", called |-> FALSE,
                         account |-> "-"])]
          /\ UNCHANGED remote
       \/ \E a \in found : \E o \in PublisherOutcomes(platform, a, Now) :
            /\ jobs' = [jobs EXCEPT ![j] = Accumulate(job,
                          [platform |-> platform, status |-> o.status,
                           error |-> o.error, called |-> o.called,
                           account |-> a.accountId])]
            /\ remote' = IF o.status = "success"
                         THEN CountUp(remote, job.postId, platform) ELSE remote
    /\ UNCHANGED <<posts, accounts, req, nextPostId, nextJobId>>

\* lines 47-60 and 133-138 of a turn for LINKEDIN: the account lookup, the
\* call of publishToLinkedIn and its expiry check
\* hasMedia: post.mediaUrls.length > 0 (line 152)
LinkedInBegin(j, hasMedia) ==
    /\ j \in DOMAIN jobs
    /\ jobs[j].pc = "publish"
    /\ LET job == jobs[j]
           platform == job.snap.platforms[Len(job.results) + 1]
           found == FindAccount(job.snap.accounts, platform) IN
       /\ platform = "LINKEDIN"
       /\ \/ /\ found = {}
             /\ jobs' = [jobs EXCEPT ![j] = Accumulate(job,
                           [platform |-> platform, status |-> "error",
                            error |-> "No active account", called |-> FALSE,
                            account |-> "-"])]
          \/ \E a \in found :
               jobs' = [jobs EXCEPT ![j] =
                  IF TokenExpired(a, Now)
                  THEN Accumulate([job EXCEPT !.call = NoCall],
                          [platform |-> platform, status |-> "error",
                           error |-> "token expired", called |-> FALSE,
                           account |-> a.accountId])
                  ELSE [job EXCEPT !.pc = "linkedin",
                                   !.call = [media |-> hasMedia, log |-> << >>,
                                             outcome |-> "running",
                                             account |-> a.accountId]]]
    /\ UNCHANGED <<posts, accounts, req, remote, nextPostId, nextJobId>>

\* one awaited request of publishToLinkedIn (lines 147-204, 225-255)
\* ok: whether the request succeeds; a failure is rethrown (212-215, 259-262)
\* and becomes the turn's error result (80-86)
LinkedInRequest(j, ok) ==
    /\ j \in DOMAIN jobs
    /\ jobs[j].pc = "linkedin"
    /\ LET job == jobs[j]
           c == job.call
           log == Append(c.log, NextCall(c.media, c.log))
           platform == job.snap.platforms[Len(job.results) + 1] IN
       IF ~ok
       THEN /\ jobs' = [jobs EXCEPT ![j] = Accumulate(
                          [job EXCEPT !.call = [c EXCEPT !.log = log, !.outcome = "error"]],
                          [platform |-> platform, status |-> "error",
                           error |-> "request failed", called |-> TRUE,
                           account |-> c.account])]
            /\ UNCHANGED remote
       ELSE IF log[Len(log)] = "ugcPosts"
       THEN /\ jobs' = [jobs EXCEPT ![j] = Accumulate(
                          [job EXCEPT !.call = [c EXCEPT !.log = log, !.outcome = "success"]],
                          [platform |-> platform, status |-> "success",
                           error |-> "-", called |-> TRUE,
                           account |-> c.account])]
            /\ remote' = CountUp(remote, job.postId, platform)
       ELSE /\ jobs' = [jobs EXCEPT ![j].call.log = log]
            /\ UNCHANGED remote
    /\ UNCHANGED <<posts, accounts, req, nextPostId, nextJobId>>

\* lines 90-108: the status update and the return
Update(j, dbUp) ==
    /\ j \in DOMAIN jobs
    /\ jobs[j].pc = "update"
    /\ LET job == jobs[j]
           p == job.postId
           allFailed == AllFailed(job.results) IN
       \/ \* the update throws (persistence unavailable)
          /\ ~dbUp
          /\ jobs' = [jobs EXCEPT ![j] = Throw(job, "database")]
          /\ UNCHANGED posts
       \/ \* the update throws (record to update not found)
          /\ dbUp
          /\ ~PostExists(p)
          /\ jobs' = [jobs EXCEPT ![j] = Throw(job, "no record")]
          /\ UNCHANGED posts
       \/ /\ dbUp
          /\ PostExists(p)
          /\ posts' = [posts EXCEPT ![p].status = IF allFailed THEN "FAILED" ELSE "PUBLISHED",
                                    ![p].publishedAt = IF allFailed THEN NoTime ELSE Now]
          /\ jobs' = [jobs EXCEPT ![j] = Complete(job, ReturnStatus(job.results))]
    /\ UNCHANGED <<accounts, req, remote, nextPostId, nextJobId>>

\* lines 110-126: mark the post failed (best effort) and rethrow
Catch(j, dbUp) ==
    /\ j \in DOMAIN jobs
    /\ jobs[j].pc = "catch"
    /\ LET job == jobs[j]
           p == job.postId IN
       /\ \/ \* the update throws and is swallowed (lines 120-122)
             /\ ~dbUp \/ ~PostExists(p)
             /\ UNCHANGED posts
          \/ /\ dbUp
             /\ PostExists(p)
             /\ posts' = [posts EXCEPT ![p].status = "FAILED"]
       /\ jobs' = [jobs EXCEPT ![j] = Fail(job)]
    /\ UNCHANGED <<accounts, req, remote, nextPostId, nextJobId>>

\* a stored time, one unit of time later
Later(t) == IF t = NoTime THEN NoTime ELSE IF t > Past THEN t - 1 ELSE Past

LaterAccount(a) == [a EXCEPT !.expiresAt = Later(@)]

\* time passes
Tick ==
    /\ posts' = [p \in DOMAIN posts |->
                   [posts[p] EXCEPT !.publishedAt = Later(@)]]
    /\ accounts' = {LaterAccount(a) : a \in accounts}
    /\ jobs' = [j \in DOMAIN jobs |->
                  [jobs[j] EXCEPT !.runAt = Later(@),
                                  !.snap.accounts = {LaterAccount(a) : a \in @}]]
    /\ req' = IF req.route = "update"
              THEN [req EXCEPT !.scheduledFor = Later(@)]
              ELSE req
    /\ UNCHANGED <<remote, nextPostId, nextJobId>>

----------------------------------------------------------------------------
(* The post routes (posts.js).  A handler is split where another process   *)
(* can act on what it has read before it writes.                           *)

\* a lookup by id alone
AnyPost(u, p) == PostExists(p)

\* lines 145-150, 172-177, 249-254, 287-292: findFirst({ id, userId })
OwnPost(u, p) == PostExists(p) /\ posts[p].userId = u

\* lines 124, 227: new Date(scheduledFor).getTime() - Date.now()
Delay(scheduledFor) == scheduledFor - Now

\* POST / (lines 86-139): prisma.contentPost.create, then postQueue.add
CreatePost(u, platforms, scheduledFor) ==
    /\ req = NoReq
    /\ nextPostId <= MaxPosts
    /\ LET p == nextPostId
           row == [userId |-> u,
                   platforms |-> platforms,
                   status |-> IF scheduledFor # NoTime THEN "SCHEDULED" ELSE "DRAFT",
                   publishedAt |-> NoTime] IN
       /\ posts' = [x \in DOMAIN posts \cup {p} |-> IF x = p THEN row ELSE posts[x]]
       /\ jobs' = IF scheduledFor # NoTime
                  THEN QueueAdd(jobs, KeyedJobId(p), p, Delay(scheduledFor))
                  ELSE jobs
       /\ nextPostId' = p + 1
    /\ UNCHANGED <<accounts, req, remote, nextJobId>>

\* an update without the check of line 184
UpdateReadUnchecked(u, p, platforms, scheduledFor) ==
    /\ req = NoReq
    /\ OwnPost(u, p)
    /\ req' = [route |-> "update", user |-> u, postId |-> p,
               existing |-> [status |-> posts[p].status],
               platforms |-> IF platforms # Absent THEN platforms ELSE posts[p].platforms,
               scheduledFor |-> scheduledFor]
    /\ UNCHANGED <<posts, accounts, jobs, remote, nextPostId, nextJobId>>

\* PUT /:postId (lines 166-200): findFirst, the 404 and 400 answers, and the
\* values the update is going to write
UpdateRead(u, p, platforms, scheduledFor) ==
    /\ req = NoReq
    /\ OwnPost(u, p)
    /\ posts[p].status # "PUBLISHED"
    /\ req' = [route |-> "update", user |-> u, postId |-> p,
               existing |-> [status |-> posts[p].status],
               platforms |-> IF platforms # Absent THEN platforms ELSE posts[p].platforms,
               scheduledFor |-> scheduledFor]
    /\ UNCHANGED <<posts, accounts, jobs, remote, nextPostId, nextJobId>>

\* line 210
UpdatedStatus(existing, scheduledFor) ==
    IF scheduledFor # NoTime THEN "SCHEDULED"
    ELSE IF existing.status = "SCHEDULED" THEN "DRAFT" ELSE existing.status

\* PUT /:postId (lines 202-236): prisma.contentPost.update, removeRepeatable,
\* and postQueue.add when a time is given
UpdateWrite(removeThrows) ==
    /\ req.route = "update"
    /\ LET p == req.postId IN
       \/ \* the update throws (record to update not found): answer 500
          /\ ~PostExists(p)
          /\ UNCHANGED <<posts, jobs>>
       \/ /\ PostExists(p)
          /\ posts' = [posts EXCEPT
                         ![p].platforms = req.platforms,
                         ![p].status = UpdatedStatus(req.existing, req.scheduledFor)]
          /\ IF removeThrows
             THEN \* answer 500, the post is updated and no job is added
                  UNCHANGED jobs
             ELSE LET q == QueueRemoveRepeatable(jobs, KeyedJobId(p)) IN
                  jobs' = IF req.scheduledFor # NoTime
                          THEN QueueAdd(q, KeyedJobId(p), p, Delay(req.scheduledFor))
                          ELSE q
    /\ req' = NoReq
    /\ UNCHANGED <<accounts, remote, nextPostId, nextJobId>>

\* DELETE /:postId (lines 245-280): findFirst, removeRepeatable when the post
\* is scheduled, prisma.contentPost.delete
DeletePost(u, p, removeThrows) ==
    /\ req = NoReq
    /\ OwnPost(u, p)
    /\ \* with removeRepeatable throwing, a scheduled post is answered 500
       \* before the delete
       ~(posts[p].status = "SCHEDULED" /\ removeThrows)
    /\ jobs' = IF posts[p].status = "SCHEDULED"
               THEN QueueRemoveRepeatable(jobs, KeyedJobId(p))
               ELSE jobs
    /\ posts' = [x \in DOMAIN posts \ {p} |-> posts[x]]
    /\ UNCHANGED <<accounts, req, remote, nextPostId, nextJobId>>

\* POST /:postId/publish (lines 283-304): findFirst, the 404 and 400 answers,
\* and postQueue.add without a jobId: the queue generates a fresh id
PublishNowAdd(u, p) ==
    /\ req = NoReq
    /\ OwnPost(u, p)
    /\ posts[p].status # "PUBLISHED"
    /\ nextJobId <= MaxAutoJobs
    /\ jobs' = QueueAdd(jobs, AutoJobId(nextJobId), p, 0)
    /\ nextJobId' = nextJobId + 1
    /\ req' = [route |-> "publish", user |-> u, postId |-> p]
    /\ UNCHANGED <<posts, accounts, remote, nextPostId>>

\* POST /:postId/publish (lines 306-315): prisma.contentPost.update
PublishNowWrite ==
    /\ req.route = "publish"
    /\ LET p == req.postId IN
       \/ \* the update throws (record to update not found): answer 500
          /\ ~PostExists(p)
          /\ UNCHANGED posts
       \/ /\ PostExists(p)
          /\ posts' = [posts EXCEPT ![p].status = "SCHEDULED"]
    /\ req' = NoReq
    /\ UNCHANGED <<accounts, jobs, remote, nextPostId, nextJobId>>

----------------------------------------------------------------------------
(* The account routes (socialAccounts.js) *)

AccountKey(a) == <<a.userId, a.platform, a.accountId>>

\* POST /connect/linkedin/callback (lines 112-135): upsert on
\* (userId, platform, accountId)
ConnectLinkedIn(u, profile) ==
    /\ req = NoReq
    /\ LET row == [userId |-> u, platform |-> "LINKEDIN", accountId |-> profile,
                   isActive |-> TRUE, expiresAt |-> Now + ExpiresIn] IN
       accounts' = {a \in accounts : AccountKey(a) # AccountKey(row)} \cup {row}
    /\ UNCHANGED <<posts, jobs, req, remote, nextPostId, nextJobId>>

\* a disconnect that deletes the row
DeleteAccount(u, a) ==
    /\ req = NoReq
    /\ a \in accounts
    /\ a.userId = u
    /\ accounts' = accounts \ {a}
    /\ UNCHANGED <<posts, jobs, req, remote, nextPostId, nextJobId>>

\* DELETE /:accountId (lines 157-184): isActive := false, the row is kept
DisconnectAccount(u, a) ==
    /\ req = NoReq
    /\ a \in accounts
    /\ a.userId = u
    /\ accounts' = (accounts \ {a}) \cup {[a EXCEPT !.isActive = FALSE]}
    /\ UNCHANGED <<posts, jobs, req, remote, nextPostId, nextJobId>>

----------------------------------------------------------------------------

\* rows the SocialAccount table holds at the start
SeedAccounts ==
    {[userId |-> "u1", platform |-> "LINKEDIN", accountId |-> "li1",
      isActive |-> TRUE, expiresAt |-> NoTime]}

\* the state after start-up: no post, an empty queue
Init ==
    /\ posts = << >>
    /\ accounts = SeedAccounts
    /\ jobs = << >>
    /\ req = NoReq
    /\ remote = << >>
    /\ nextPostId = 1
    /\ nextJobId = 1

\* the worker, with a database that may fail any call
Worker ==
    \/ \E j \in DOMAIN jobs : Pickup(j)
    \/ \E j \in DOMAIN jobs, dbUp \in BOOLEAN : Load(j, dbUp)
    \/ \E j \in DOMAIN jobs : PublishStep(j)
    \/ \E j \in DOMAIN jobs, dbUp \in BOOLEAN : Update(j, dbUp)
    \/ \E j \in DOMAIN jobs, dbUp \in BOOLEAN : Catch(j, dbUp)

PostRoutes ==
    \/ \E u \in Users, pl \in PlatformLists, t \in SchedInputs : CreatePost(u, pl, t)
    \/ \E u \in Users, p \in DOMAIN posts, pl \in PlatformLists \cup {Absent},
          t \in SchedInputs : UpdateRead(u, p, pl, t)
    \/ \E removeThrows \in BOOLEAN : UpdateWrite(removeThrows)
    \/ \E u \in Users, p \in DOMAIN posts, removeThrows \in BOOLEAN :
          DeletePost(u, p, removeThrows)
    \/ \E u \in Users, p \in DOMAIN posts : PublishNowAdd(u, p)
    \/ PublishNowWrite

\* GET /:postId (lines 141-163), the post found: answer 200 with the post
GetPost(u, p) ==
    /\ req = NoReq
    /\ OwnPost(u, p)
    /\ req' = [route |-> "200", user |-> u, postId |-> p]
    /\ UNCHANGED <<posts, accounts, jobs, remote, nextPostId, nextJobId>>

\* lines 152-154, 179-181, 256-258, 294-296: findFirst returned null, the
\* handler answers 404 and returns
NotFound(u, p) ==
    /\ req = NoReq
    /\ ~OwnPost(u, p)
    /\ req' = [route |-> "404", user |-> u, postId |-> p]
    /\ UNCHANGED <<posts, accounts, jobs, remote, nextPostId, nextJobId>>

\* PUT /:postId (lines 183-186) and POST /:postId/publish (lines 298-300):
\* the post found is PUBLISHED, the handler answers 400 and returns
Rejected(u, p) ==
    /\ req = NoReq
    /\ OwnPost(u, p)
    /\ posts[p].status = "PUBLISHED"
    /\ req' = [route |-> "400", user |-> u, postId |-> p]
    /\ UNCHANGED <<posts, accounts, jobs, remote, nextPostId, nextJobId>>

\* the answer of GET, of a 404 or of a 400 is sent
Respond ==
    /\ req.route \in {"200", "400", "404"}
    /\ req' = NoReq
    /\ UNCHANGED <<posts, accounts, jobs, remote, nextPostId, nextJobId>>

AccountRoutes ==
    \/ \E u \in Users, profile \in LinkedInProfiles : ConnectLinkedIn(u, profile)
    \/ \E u \in Users, a \in accounts : DisconnectAccount(u, a)

\* the post routes, the queue and the worker, over a fixed account table
Next == Worker \/ PostRoutes \/ Tick

Spec == Init /\ [][Next]_vars

\* The worker pool under load: more posts are due than the worker has slots.
\* Every post was created by POST / with a time that has come, so each has
\* its job waiting under the post's job id; the database answers every call.
PoolPosts ==
    [p \in 1..PoolJobs |-> [userId |-> "u1", platforms |-> <<"LINKEDIN">>,
                            status |-> "SCHEDULED", publishedAt |-> NoTime]]

PoolQueue ==
    [id \in {KeyedJobId(p) : p \in 1..PoolJobs} |-> NewJob(id[2], 0)]

PoolInit ==
    /\ posts = PoolPosts
    /\ accounts = SeedAccounts
    /\ jobs = PoolQueue
    /\ req = NoReq
    /\ remote = << >>
    /\ nextPostId = PoolJobs + 1
    /\ nextJobId = 1

PoolNext ==
    \/ \E j \in DOMAIN jobs : Pickup(j)
    \/ \E j \in DOMAIN jobs : Load(j, TRUE)
    \/ \E j \in DOMAIN jobs : PublishStep(j)
    \/ \E j \in DOMAIN jobs : Update(j, TRUE)

SpecPool == PoolInit /\ [][PoolNext]_vars

\* The worker over an account table that changes: users connect and
\* disconnect LinkedIn accounts, tokens expire as time passes, and posts are
\* created due at once.  The database answers every call.
AccountsInit ==
    /\ posts = << >>
    /\ accounts = {}
    /\ jobs = << >>
    /\ req = NoReq
    /\ remote = << >>
    /\ nextPostId = 1
    /\ nextJobId = 1

\* the logins completed at LinkedIn: the author with either profile, another
\* user with one
AccountsLogins == {<<"u1", "li1">>, <<"u1", "li2">>, <<"u2", "li1">>}

AccountsNext ==
    \/ \E pl \in PlatformLists : CreatePost("u1", pl, Now)
    \/ \E j \in DOMAIN jobs : Pickup(j)
    \/ \E j \in DOMAIN jobs : Load(j, TRUE)
    \/ \E j \in DOMAIN jobs : PublishStep(j)
    \/ \E j \in DOMAIN jobs : Update(j, TRUE)
    \/ \E l \in AccountsLogins : ConnectLinkedIn(l[1], l[2])
    \/ \E u \in Users, a \in accounts : DisconnectAccount(u, a)
    \/ Tick

SpecAccounts == AccountsInit /\ [][AccountsNext]_vars

\* the platform lists of the posts of the author: empty, stubs only, with a
\* name the switch has no case for, with a name twice, and LinkedIn
WidePlatformLists ==
    {<< >>, <<"LINKEDIN">>, <<"LINKEDIN", "LINKEDIN">>,
     <<"INSTAGRAM">>, <<"TIKTOK", "FACEBOOK">>,
     <<"INSTAGRAM", "TIKTOK", "FACEBOOK">>, <<UnknownPlatform>>,
     <<UnknownPlatform, "LINKEDIN">>, <<"LINKEDIN", UnknownPlatform>>,
     <<"INSTAGRAM", UnknownPlatform, "LINKEDIN">>}

\* account rows of the author, one per platform name
WideAccounts ==
    {[userId |-> "u1", platform |-> pf, accountId |-> pf,
      isActive |-> TRUE, expiresAt |-> NoTime] :
        pf \in Platforms \cup {UnknownPlatform}}

\* no post, an empty queue, any of the account rows
PlatformsInit ==
    /\ posts = << >>
    /\ accounts \in SUBSET WideAccounts
    /\ jobs = << >>
    /\ req = NoReq
    /\ remote = << >>
    /\ nextPostId = 1
    /\ nextJobId = 1

\* posts over any of the platform lists, due at once, and the worker
PlatformsNext ==
    \/ \E pl \in WidePlatformLists : CreatePost("u1", pl, Now)
    \/ Worker
    \/ Tick

SpecPlatforms == PlatformsInit /\ [][PlatformsNext]_vars

\* the author's LinkedIn account, with a token that does not expire or one
\* that expires in ExpiresIn
LinkedInAccounts ==
    {[userId |-> "u1", platform |-> "LINKEDIN", accountId |-> "li1",
      isActive |-> TRUE, expiresAt |-> t] : t \in {NoTime, Now + ExpiresIn}}

LinkedInInit ==
    /\ posts = << >>
    /\ accounts \in {{a} : a \in LinkedInAccounts}
    /\ jobs = << >>
    /\ req = NoReq
    /\ remote = << >>
    /\ nextPostId = 1
    /\ nextJobId = 1

\* LinkedIn posts, with and without media, and the worker with the calls of
\* publishToLinkedIn followed one request at a time
LinkedInNext ==
    \/ \E t \in {Now, MaxAhead} : CreatePost("u1", <<"LINKEDIN">>, t)
    \/ \E j \in DOMAIN jobs : Pickup(j)
    \/ \E j \in DOMAIN jobs, dbUp \in BOOLEAN : Load(j, dbUp)
    \/ \E j \in DOMAIN jobs, hasMedia \in BOOLEAN : LinkedInBegin(j, hasMedia)
    \/ \E j \in DOMAIN jobs, ok \in BOOLEAN : LinkedInRequest(j, ok)
    \/ \E j \in DOMAIN jobs, dbUp \in BOOLEAN : Update(j, dbUp)
    \/ \E j \in DOMAIN jobs, dbUp \in BOOLEAN : Catch(j, dbUp)
    \/ Tick

SpecLinkedIn == LinkedInInit /\ [][LinkedInNext]_vars

\* the user whose requests are followed, on any post id
Intruder == "u2"

\* Two users: either creates the post, the requests on post ids are all the
\* intruder's.
IsolationNext ==
    \/ \E u \in Users, t \in {NoTime, Now, MaxAhead} : CreatePost(u, <<"LINKEDIN">>, t)
    \/ \E p \in 1..MaxPosts : GetPost(Intruder, p)
    \/ \E p \in 1..MaxPosts : NotFound(Intruder, p)
    \/ Respond
    \/ \E p \in 1..MaxPosts, pl \in {<<"LINKEDIN", "INSTAGRAM">>, Absent},
          t \in {NoTime, Now} : UpdateRead(Intruder, p, pl, t)
    \/ \E removeThrows \in BOOLEAN : UpdateWrite(removeThrows)
    \/ \E p \in 1..MaxPosts, removeThrows \in BOOLEAN :
          DeletePost(Intruder, p, removeThrows)
    \/ \E p \in 1..MaxPosts : PublishNowAdd(Intruder, p)
    \/ PublishNowWrite
    \/ Worker
    \/ Tick

SpecIsolation == Init /\ [][IsolationNext]_vars

\* The author's post and the author's update and publish-now requests, the
\* rejected ones included, with the worker.
RejectsNext ==
    \/ \E t \in {NoTime, Now} : CreatePost("u1", <<"LINKEDIN">>, t)
    \/ \E p \in DOMAIN posts, pl \in {<<"LINKEDIN", "INSTAGRAM">>, Absent},
          t \in {NoTime, Now} : UpdateRead("u1", p, pl, t)
    \/ \E removeThrows \in BOOLEAN : UpdateWrite(removeThrows)
    \/ \E p \in DOMAIN posts : PublishNowAdd("u1", p)
    \/ PublishNowWrite
    \/ \E p \in DOMAIN posts : Rejected("u1", p)
    \/ Respond
    \/ Worker
    \/ Tick

SpecRejects == Init /\ [][RejectsNext]_vars

\* the ids a job can have
JobIds ==
    {KeyedJobId(p) : p \in 1..MaxPosts} \cup {AutoJobId(n) : n \in 1..MaxAutoJobs}

\* The author's requests and the worker, with a database that answers every
\* call and a queue call that does not throw.
LiveNext ==
    \/ \E pl \in PlatformLists, t \in {NoTime, Now, MaxAhead} : CreatePost("u1", pl, t)
    \/ \E p \in DOMAIN posts, t \in {NoTime, Now} : UpdateRead("u1", p, Absent, t)
    \/ UpdateWrite(FALSE)
    \/ \E p \in DOMAIN posts : DeletePost("u1", p, FALSE)
    \/ \E p \in DOMAIN posts : PublishNowAdd("u1", p)
    \/ PublishNowWrite
    \/ \E j \in DOMAIN jobs : Pickup(j)
    \/ \E j \in DOMAIN jobs : Load(j, TRUE)
    \/ \E j \in DOMAIN jobs : PublishStep(j)
    \/ \E j \in DOMAIN jobs : Update(j, TRUE)
    \/ \E j \in DOMAIN jobs : Catch(j, TRUE)
    \/ Tick

\* fair scheduling: time passes, the worker takes every job that is due and
\* every await of the processor and of a request handler returns
LiveFairness ==
    /\ WF_vars(Tick)
    /\ WF_vars(UpdateWrite(FALSE))
    /\ WF_vars(PublishNowWrite)
    /\ \A j \in JobIds :
          /\ WF_vars(Pickup(j))
          /\ WF_vars(Load(j, TRUE))
          /\ WF_vars(PublishStep(j))
          /\ WF_vars(Update(j, TRUE))
          /\ WF_vars(Catch(j, TRUE))

SpecLive == Init /\ [][LiveNext]_vars /\ LiveFairness

----------------------------------------------------------------------------
(* Properties *)

ErrorCount(results) ==
    Cardinality({i \in 1..Len(results) : results[i].status = "error"})
SuccessCount(results) ==
    Cardinality({i \in 1..Len(results) : results[i].status = "success"})

PendingJobsOf(p) == {j \in DOMAIN jobs : jobs[j].postId = p /\ IsPending(j)}
ActiveJobsOf(p) == {j \in DOMAIN jobs : jobs[j].postId = p /\ IsActive(j)}

\* C1: a job whose load returns a post in status PUBLISHED goes straight to
\* completed: it never enters the publish loop, the post table and the
\* history of remote publishes stay as they are, and no attempt is counted.
C1_IdempotentRedelivery ==
    [][\A j \in DOMAIN jobs :
          ( /\ jobs[j].pc = "load"
            /\ PostExists(jobs[j].postId)
            /\ posts[jobs[j].postId].status = "PUBLISHED"
            /\ jobs'[j] # jobs[j]
            /\ jobs'[j].pc # "catch" )
          => ( /\ jobs'[j].state = "completed"
               /\ jobs'[j].attemptsMade = jobs[j].attemptsMade
               /\ posts' = posts
               /\ remote' = remote )]_vars

\* C1 witness: a job has completed as 'already_published' on a published post
C1_Witness ==
    \E j \in DOMAIN jobs :
        /\ jobs[j].state = "completed"
        /\ jobs[j].returnvalue = "already_published"
        /\ PostExists(jobs[j].postId)
        /\ posts[jobs[j].postId].status = "PUBLISHED"

\* C2: when the status update of an execution with total >= 1 target
\* platforms completes, the post is FAILED with publishedAt null if every
\* result is an error, and PUBLISHED with publishedAt = now otherwise.
C2_AggregationPolicy ==
    [][\A j \in DOMAIN jobs :
          ( /\ jobs[j].pc = "update"
            /\ jobs'[j].state = "completed"
            /\ Len(jobs[j].snap.platforms) >= 1 )
          => LET p == jobs[j].postId
                 total == Len(jobs[j].snap.platforms)
                 failed == ErrorCount(jobs[j].results) IN
             /\ p \in DOMAIN posts'
             /\ IF failed = total
                THEN /\ posts'[p].status = "FAILED"
                     /\ posts'[p].publishedAt = NoTime
                     /\ SuccessCount(jobs[j].results) = 0
                ELSE /\ posts'[p].status = "PUBLISHED"
                     /\ posts'[p].publishedAt = Now]_vars

\* C2 witness: two targets, one success and one error, and the post has been
\* written PUBLISHED
C2_Witness ==
    \E j \in DOMAIN jobs :
        /\ jobs[j].state = "completed"
        /\ jobs[j].returnvalue = "partial_success"
        /\ PostExists(jobs[j].postId)
        /\ Len(posts[jobs[j].postId].platforms) = 2
        /\ posts[jobs[j].postId].status = "PUBLISHED"
        /\ posts[jobs[j].postId].publishedAt = Now

\* C3: in the loop the results recorded so far are those of the first
\* platforms of the loaded post, in order, whatever their outcome; the loop is
\* left only for the status update, and by then every target platform has
\* exactly one result.
C3_IndependentAccumulation ==
    /\ [](\A j \in DOMAIN jobs :
            jobs[j].pc \in {"publish", "update"} =>
                /\ Len(jobs[j].results) <= Len(jobs[j].snap.platforms)
                /\ \A i \in 1..Len(jobs[j].results) :
                      jobs[j].results[i].platform = jobs[j].snap.platforms[i]
                /\ jobs[j].pc = "publish" =>
                      Len(jobs[j].results) < Len(jobs[j].snap.platforms)
                /\ jobs[j].pc = "update" =>
                      Len(jobs[j].results) = Len(jobs[j].snap.platforms))
    /\ [][\A j \in DOMAIN jobs :
            jobs[j].pc = "publish" =>
                /\ jobs'[j].pc \in {"publish", "update"}
                /\ Len(jobs'[j].results) \in {Len(jobs[j].results),
                                              Len(jobs[j].results) + 1}]_vars

\* C3 witness: the first platform failed and the second was still attempted
C3_Witness ==
    \E j \in DOMAIN jobs :
        /\ jobs[j].pc = "update"
        /\ Len(jobs[j].results) = 2
        /\ jobs[j].results[1].status = "error"
        /\ jobs[j].results[2].platform = "INSTAGRAM"

\* C4 (as claimed): no platform sees more than one successful remote publish
\* of the same post.
C4_AtMostOnePublish ==
    \A k \in DOMAIN remote : remote[k] <= 1

\* C5 (as claimed): at most one pending job per post.
C5_OnePendingJobPerPost ==
    \A p \in 1..MaxPosts : Cardinality(PendingJobsOf(p)) <= 1

\* C6 (as claimed): an update carrying a future time t2, made while the job
\* of the first scheduling is still delayed, leaves exactly one pending job
\* for the post, due at t2, with no attempt counted.
C6_RescheduleReplaces ==
    [][( /\ req.route = "update"
         /\ req' = NoReq
         /\ req.scheduledFor # NoTime
         /\ req.scheduledFor > Now
         /\ PostExists(req.postId)
         /\ \E j \in PendingJobsOf(req.postId) : jobs[j].state = "delayed" )
       => \E j \in DOMAIN jobs' :
             /\ {k \in DOMAIN jobs' : /\ jobs'[k].postId = req.postId
                                      /\ jobs'[k].state \in {"waiting", "delayed"}} = {j}
             /\ jobs'[j].attemptsMade = 0
             /\ jobs'[j].state = "delayed"
             /\ jobs'[j].runAt = req.scheduledFor]_vars

\* C7 (as claimed): once a post is deleted, or updated without a time, no
\* pending job for it remains in the queue.
C7_CancelRemovesPending ==
    [][\A p \in DOMAIN posts :
          ( \/ p \notin DOMAIN posts'
            \/ /\ req.route = "update" /\ req.postId = p /\ req.scheduledFor = NoTime
               /\ req' = NoReq
               /\ posts'[p].status = "DRAFT" )
          => \A j \in DOMAIN jobs' :
                jobs'[j].postId = p => jobs'[j].state \notin {"waiting", "delayed"}]_vars

\* C8 (as claimed): at most one active job per post.
C8_OneActiveJobPerPost ==
    \A p \in 1..MaxPosts : Cardinality(ActiveJobsOf(p)) <= 1

\* C9: with more jobs due than slots, the worker never has more than
\* Concurrency jobs active; a job keeps its slot until it is completed or
\* failed, so a further job is picked up only when fewer are running.
C9_ConcurrencyBound ==
    Cardinality({j \in DOMAIN jobs : IsActive(j)}) <= Concurrency

\* C9 witness: every slot is busy and a job that is due waits for one
C9_Witness ==
    /\ Cardinality({j \in DOMAIN jobs : IsActive(j)}) = Concurrency
    /\ \E j \in DOMAIN jobs : jobs[j].state = "waiting"
    /\ \E j \in DOMAIN jobs : jobs[j].pc = "update"

\* C10: a job at the status update either completes (the update was done) or
\* goes to the catch block with the post table untouched (the update threw);
\* it completes with no attempt counted whatever its results are, and a
\* completed job is never touched again.
C10_PlatformErrorsNeverFailJob ==
    [][\A j \in DOMAIN jobs :
          /\ (jobs[j].pc = "update" /\ jobs'[j] # jobs[j]) =>
                \/ /\ jobs'[j].state = "completed"
                   /\ jobs'[j].attemptsMade = jobs[j].attemptsMade
                   /\ jobs'[j].returnvalue = IF ErrorCount(jobs[j].results) = 0
                                              THEN "success"
                                              ELSE IF SuccessCount(jobs[j].results) = 0
                                                   THEN "failed" ELSE "partial_success"
                \/ /\ jobs'[j].pc = "catch"
                   /\ posts' = posts
          /\ jobs[j].state = "completed" => jobs'[j] = jobs[j]]_vars

\* C10 witness: every target platform failed, the post is FAILED, and the job
\* is completed with no attempt counted
C10_Witness ==
    \E j \in DOMAIN jobs :
        /\ jobs[j].state = "completed"
        /\ jobs[j].returnvalue = "failed"
        /\ jobs[j].attemptsMade = 0
        /\ PostExists(jobs[j].postId)
        /\ posts[jobs[j].postId].status = "FAILED"

\* C11: a job whose load or status update threw leaves the catch block only
\* as a failure reported to the queue: an attempt is counted, the job is
\* delayed for a retry or failed, no return value is stored; this is so
\* whether the catch block's own update of the post succeeded or not.  A job
\* reaches the catch block only from the load or the status update.
C11_JobLevelErrorsPropagate ==
    [][\A j \in DOMAIN jobs :
          /\ ( jobs[j].pc = "catch" /\ jobs'[j].pc # "catch" )
                => /\ jobs'[j].state \in {"delayed", "failed"}
                   /\ jobs'[j].attemptsMade = jobs[j].attemptsMade + 1
                   /\ jobs'[j].returnvalue = "-"
          /\ ( jobs[j].pc # "catch" /\ jobs'[j].pc = "catch" )
                => /\ jobs[j].pc \in {"load", "update"}
                   /\ jobs'[j].state = "active"
                   /\ jobs'[j].error # "-"]_vars

\* C11 witness: a job failed its first attempt and waits for the retry, and
\* the post was not marked FAILED (the catch block's update threw as well)
C11_Witness ==
    \E j \in DOMAIN jobs :
        /\ jobs[j].state = "delayed"
        /\ jobs[j].attemptsMade = 1
        /\ PostExists(jobs[j].postId)
        /\ posts[jobs[j].postId].status = "SCHEDULED"

\* C12: a job is executed at most Attempts times: counting the execution in
\* progress, its attempts never exceed the ceiling; a job is failed only at
\* the ceiling; a completed or failed job stays in the queue as it is and is
\* never picked up again.
C12_BoundedRetries ==
    /\ [](\A j \in DOMAIN jobs :
             /\ jobs[j].attemptsMade + (IF IsActive(j) THEN 1 ELSE 0) <= Attempts
             /\ jobs[j].state = "failed" => jobs[j].attemptsMade = Attempts
             /\ jobs[j].state = "completed" => jobs[j].attemptsMade < Attempts)
    /\ [][\A j \in DOMAIN jobs :
             jobs[j].state \in {"completed", "failed"}
                => j \in DOMAIN jobs' /\ jobs'[j] = jobs[j]]_vars

\* C12 witness: a job has failed for good after Attempts attempts
C12_Witness ==
    \E j \in DOMAIN jobs :
        jobs[j].state = "failed" /\ jobs[j].attemptsMade = Attempts

\* C13 (as claimed): an execution that fails at job level leaves the post
\* table as it was.
C13_JobFailureLeavesPost ==
    [][\A j \in DOMAIN jobs :
          ( jobs[j].pc = "catch" /\ jobs'[j].pc # "catch" ) => posts' = posts]_vars

\* C14 (as claimed): a job that finds its post missing at load, the database
\* answering, completes: no attempt is counted, nothing is written and no
\* publisher is called.
C14_MissingPostIsNoOp ==
    [][\A j \in DOMAIN jobs :
          ( /\ jobs[j].pc = "load"
            /\ ~PostExists(jobs[j].postId)
            /\ jobs'[j].pc # "load"
            /\ jobs'[j].error # "database" )
          => /\ jobs'[j].state = "completed"
             /\ jobs'[j].attemptsMade = jobs[j].attemptsMade
             /\ posts' = posts
             /\ remote' = remote]_vars

\* the result a turn of the loop has just pushed for job j
Pushed(j) == jobs'[j].results[Len(jobs[j].results) + 1]

\* job j makes a turn of the loop in this step
Turn(j) ==
    /\ jobs[j].pc = "publish"
    /\ jobs'[j].pc \in {"publish", "update"}
    /\ Len(jobs'[j].results) = Len(jobs[j].results) + 1

\* the platform the loop of job j is at
Current(j) == jobs[j].snap.platforms[Len(jobs[j].results) + 1]

\* C15: a turn of the loop for a platform for which the loaded post's author
\* has no active account pushes the error result 'No active account', made
\* without a network request, and publishes nothing remotely.
C15_MissingAccountShortCircuit ==
    [][\A j \in DOMAIN jobs :
          ( /\ Turn(j)
            /\ ~\E a \in jobs[j].snap.accounts :
                   a.platform = Current(j) /\ a.isActive )
          => /\ Pushed(j) = [platform |-> Current(j), status |-> "error",
                              error |-> "No active account", called |-> FALSE,
                              account |-> "-"]
             /\ remote' = remote]_vars

\* C15 witness: the author's LinkedIn account is disconnected and the loop
\* has recorded 'No active account' for LinkedIn
C15_Witness ==
    \E j \in DOMAIN jobs :
        /\ Len(jobs[j].results) >= 1
        /\ jobs[j].results[1].platform = "LINKEDIN"
        /\ jobs[j].results[1].error = "No active account"
        /\ \E a \in accounts : /\ a.userId = posts[jobs[j].postId].userId
                               /\ a.platform = "LINKEDIN"
                               /\ ~a.isActive

\* C16: a turn of the loop for a platform whose resolved account has an
\* expiry time at or before now pushes an error result made without a
\* network request, and publishes nothing remotely.
C16_ExpiryBeforeNetwork ==
    [][\A j \in DOMAIN jobs :
          ( /\ Turn(j)
            /\ \E a \in jobs[j].snap.accounts :
                   a.platform = Current(j) /\ a.isActive
            /\ \A a \in jobs[j].snap.accounts :
                   (a.platform = Current(j) /\ a.isActive)
                      => (a.expiresAt # NoTime /\ a.expiresAt <= Now) )
          => /\ Pushed(j).status = "error"
             /\ Pushed(j).called = FALSE
             /\ remote' = remote]_vars

\* C16 witness: the token expired at this very instant (expiresAt = now) and
\* the LinkedIn result is the local error
C16_Witness ==
    \E j \in DOMAIN jobs :
        /\ Len(jobs[j].results) >= 1
        /\ jobs[j].results[1].error = "token expired"
        /\ ~jobs[j].results[1].called
        /\ \E a \in jobs[j].snap.accounts :
              a.platform = "LINKEDIN" /\ a.expiresAt = Now

\* the outcome recorded for post p: the return value (lines 104-108) of a
\* completed job of the post
RecordedOutcomes(p) ==
    {jobs[j].returnvalue : j \in {k \in DOMAIN jobs : /\ jobs[k].postId = p
                                                       /\ jobs[k].state = "completed"}}

\* C17 (as claimed): a reader that sees a post PUBLISHED or FAILED also sees
\* the outcome of the execution that set the status, and the two agree.
C17_AtomicOutcome ==
    \A p \in DOMAIN posts :
        /\ posts[p].status = "PUBLISHED"
              => RecordedOutcomes(p) \cap {"success", "partial_success"} # {}
        /\ posts[p].status = "FAILED"
              => "failed" \in RecordedOutcomes(p)

\* C18 (as claimed): a post in status FAILED was published to no platform.
C18_FailedMeansAllErrors ==
    \A p \in DOMAIN posts :
        posts[p].status = "FAILED"
           => \A platform \in Platforms : RemoteCount(remote, p, platform) = 0

\* C19: a step that sets a post to PUBLISHED is the status update of a job of
\* that post whose results hold a success; hence a PUBLISHED post has been
\* published remotely to one of the platforms at least.
C19_PublishedMeansSomeSuccess ==
    /\ [][\A p \in DOMAIN posts' :
            ( /\ posts'[p].status = "PUBLISHED"
              /\ p \in DOMAIN posts => posts[p].status # "PUBLISHED" )
            => \E j \in DOMAIN jobs :
                  /\ jobs[j].postId = p
                  /\ jobs[j].pc = "update"
                  /\ jobs'[j].state = "completed"
                  /\ SuccessCount(jobs[j].results) >= 1]_vars
    /\ [](\A p \in DOMAIN posts :
            posts[p].status = "PUBLISHED"
               => \E platform \in Platforms : RemoteCount(remote, p, platform) >= 1)

\* C19 witness: a post is PUBLISHED by an execution in which every platform
\* succeeded
C19_Witness ==
    \E j \in DOMAIN jobs :
        /\ jobs[j].state = "completed"
        /\ jobs[j].returnvalue = "success"
        /\ PostExists(jobs[j].postId)
        /\ posts[jobs[j].postId].status = "PUBLISHED"
        /\ RemoteCount(remote, jobs[j].postId, "LINKEDIN") = 1

\* C20 (as claimed): while a job executes the publish loop or the status
\* update for a post, the post's status is PUBLISHING.
C20_PublishingWhileExecuting ==
    \A j \in DOMAIN jobs :
        ( jobs[j].pc \in {"publish", "update"} /\ PostExists(jobs[j].postId) )
           => posts[jobs[j].postId].status = "PUBLISHING"

\* C21 (as claimed): the delay an update hands to the queue with a new job is
\* max(0, scheduled time - now): 0 for a time in the past, never negative.
C21_DelayNeverNegative ==
    [][( /\ req.route = "update"
         /\ req' = NoReq
         /\ req.scheduledFor # NoTime
         /\ KeyedJobId(req.postId) \notin DOMAIN jobs
         /\ KeyedJobId(req.postId) \in DOMAIN jobs' )
       => Delay(req.scheduledFor) =
             (IF req.scheduledFor > Now THEN req.scheduledFor - Now ELSE 0)]_vars

\* C22 (as claimed): an update that asks for a time earlier than now is
\* rejected: the post is not put in status SCHEDULED and no job is added.
C22_PastScheduleRejected ==
    [][( /\ req.route = "update"
         /\ req' = NoReq
         /\ req.scheduledFor # NoTime
         /\ req.scheduledFor < Now
         /\ PostExists(req.postId)
         /\ posts[req.postId].status # "SCHEDULED" )
       => /\ posts'[req.postId].status # "SCHEDULED"
          /\ DOMAIN jobs' = DOMAIN jobs]_vars

\* C23 (as claimed): every (user, platform) pair has at most one active
\* account.
C23_SingleActiveAccount ==
    \A u \in Users, platform \in Platforms :
        Cardinality({a \in accounts : /\ a.userId = u
                                       /\ a.platform = platform
                                       /\ a.isActive}) <= 1

\* C24 (as claimed): an account a publisher is called with is, at the time of
\* the call, an active row of the account table.
C24_NeverPassedOnceInactive ==
    [][\A j \in DOMAIN jobs :
          ( Turn(j) /\ Pushed(j).account # "-" /\ PostExists(jobs[j].postId) )
          => \E a \in accounts :
                /\ a.userId = posts[jobs[j].postId].userId
                /\ a.platform = Current(j)
                /\ a.accountId = Pushed(j).account
                /\ a.isActive]_vars

\* C24 (amended): no step deletes an account row, a disconnect included; the
\* accounts an execution works with are those of the author that are active
\* when it loads the post, and a publisher is called only with one of them;
\* a platform with no such account gets a result made without a publisher.
C24_InactiveExcludedAtLoad ==
    /\ [][\A a \in accounts :
            \E b \in accounts' : AccountKey(b) = AccountKey(a)]_vars
    /\ [][\A j \in DOMAIN jobs :
            ( jobs[j].pc = "load" /\ jobs'[j].pc \in {"publish", "update"} )
            => jobs'[j].snap.accounts =
                  {a \in accounts : /\ a.userId = posts[jobs[j].postId].userId
                                    /\ a.isActive}]_vars
    /\ [][\A j \in DOMAIN jobs :
            Turn(j) =>
               IF \E a \in jobs[j].snap.accounts :
                     a.platform = Current(j) /\ a.isActive
               THEN \E a \in jobs[j].snap.accounts :
                       /\ a.platform = Current(j)
                       /\ a.isActive
                       /\ a.accountId = Pushed(j).account
               ELSE Pushed(j).account = "-"]_vars

\* C24 witness: every LinkedIn account of the author is disconnected, the
\* rows are still there, and the execution went past LinkedIn without a
\* publisher
C24_Witness ==
    \E j \in DOMAIN jobs :
        /\ jobs[j].pc = "update"
        /\ jobs[j].results[1].platform = "LINKEDIN"
        /\ jobs[j].results[1].account = "-"
        /\ Cardinality({a \in accounts : /\ a.userId = posts[jobs[j].postId].userId
                                          /\ a.platform = "LINKEDIN"
                                          /\ ~a.isActive}) = 2

\* every platform of the list is one of the publishers left as stubs
AllStubs(platforms) ==
    /\ Len(platforms) > 0
    /\ \A i \in 1..Len(platforms) : platforms[i] \in StubPlatforms

\* C25: a turn of the loop for INSTAGRAM, TIKTOK or FACEBOOK pushes an error
\* result made without a network request ('not yet implemented' whenever the
\* publisher is called) and publishes nothing remotely; a post whose platforms
\* are all of these is never PUBLISHED and has no publishedAt, and the status
\* update of its execution writes FAILED and completes the job, which is not
\* retried.
C25_StubsAreTerminalErrors ==
    /\ [][\A j \in DOMAIN jobs :
            ( Turn(j) /\ Current(j) \in StubPlatforms )
            => /\ Pushed(j).status = "error"
               /\ ~Pushed(j).called
               /\ Pushed(j).account # "-" => Pushed(j).error = "not yet implemented"
               /\ remote' = remote]_vars
    /\ [](\A p \in DOMAIN posts :
            AllStubs(posts[p].platforms)
            => /\ posts[p].status # "PUBLISHED"
               /\ posts[p].publishedAt = NoTime)
    /\ [][\A j \in DOMAIN jobs :
            ( /\ jobs[j].pc = "update"
              /\ AllStubs(jobs[j].snap.platforms)
              /\ jobs'[j].pc \notin {"update", "catch"} )
            => /\ posts'[jobs[j].postId].status = "FAILED"
               /\ jobs'[j].state = "completed"
               /\ jobs'[j].attemptsMade = jobs[j].attemptsMade
               /\ jobs'[j].returnvalue = "failed"]_vars

\* C25 witness: the job of a post for the three stub platforms, each with an
\* account of the author, is completed at its first attempt and the post is
\* FAILED
C25_Witness ==
    \E j \in DOMAIN jobs :
        /\ jobs[j].state = "completed"
        /\ jobs[j].returnvalue = "failed"
        /\ jobs[j].attemptsMade = 0
        /\ posts[jobs[j].postId].platforms = <<"INSTAGRAM", "TIKTOK", "FACEBOOK">>
        /\ \A pf \in StubPlatforms : \E a \in accounts : a.platform = pf
        /\ posts[jobs[j].postId].status = "FAILED"
        /\ posts[jobs[j].postId].publishedAt = NoTime

\* C26: a turn of the loop for a platform the switch has no case for pushes
\* one error result for that platform, leaves the earlier results as they
\* were and goes on to the next platform or, after the last, to the status
\* update; the job stays active and no job leaves the loop for the catch block.
C26_UnknownPlatformIsNoCrash ==
    /\ [][\A j \in DOMAIN jobs :
            ( /\ jobs[j].pc = "publish"
              /\ Current(j) \notin Platforms
              /\ jobs'[j] # jobs[j] )
            => /\ Turn(j)
               /\ Pushed(j).platform = Current(j)
               /\ Pushed(j).status = "error"
               /\ SubSeq(jobs'[j].results, 1, Len(jobs[j].results)) = jobs[j].results
               /\ jobs'[j].pc = IF Len(jobs'[j].results) < Len(jobs[j].snap.platforms)
                                THEN "publish" ELSE "update"
               /\ jobs'[j].state = "active"
               /\ jobs'[j].attemptsMade = jobs[j].attemptsMade]_vars
    /\ [](\A j \in DOMAIN jobs : jobs[j].error # "not supported")

\* C26 witness: the unknown platform came first, with an account, and
\* LinkedIn was published to after it
C26_Witness ==
    \E j \in DOMAIN jobs :
        /\ jobs[j].state = "completed"
        /\ jobs[j].returnvalue = "partial_success"
        /\ jobs[j].attemptsMade = 0
        /\ posts[jobs[j].postId].platforms = <<UnknownPlatform, "LINKEDIN">>
        /\ \E a \in accounts : a.platform = UnknownPlatform
        /\ RemoteCount(remote, jobs[j].postId, "LINKEDIN") = 1
        /\ posts[jobs[j].postId].status = "PUBLISHED"

\* C28 (as claimed): the status update of an execution without an error
\* result, the execution of a post without platforms included, writes
\* PUBLISHED and sets publishedAt.
C28_ZeroFailuresMeansPublished ==
    [][\A j \in DOMAIN jobs :
          ( /\ jobs[j].pc = "update"
            /\ ErrorCount(jobs[j].results) = 0
            /\ jobs'[j].pc \notin {"update", "catch"} )
          => /\ posts'[jobs[j].postId].status = "PUBLISHED"
             /\ posts'[jobs[j].postId].publishedAt = Now]_vars

\* C27: a request of a user on a post of another user is answered 404, and
\* only such a request or one for a missing post is; no request that goes on
\* is on another user's post.  A post of the other user is never deleted, its
\* platforms never change, its status changes only to PUBLISHED or FAILED
\* (the worker's writes), and the queue never holds a job for it other than
\* the one its creation added.
C27_CrossUserIsolation ==
    /\ [](req.route = "404" => ~OwnPost(req.user, req.postId))
    /\ [](req.route \in {"200", "update", "publish"}
            => OwnPost(req.user, req.postId))
    /\ [][\A p \in DOMAIN posts :
            posts[p].userId # Intruder
            => /\ p \in DOMAIN posts'
               /\ posts'[p].userId = posts[p].userId
               /\ posts'[p].platforms = posts[p].platforms
               /\ posts'[p].status # posts[p].status
                     => posts'[p].status \in {"PUBLISHED", "FAILED"}]_vars
    /\ [](\A j \in DOMAIN jobs :
            ( PostExists(jobs[j].postId) /\ posts[jobs[j].postId].userId # Intruder )
            => j = KeyedJobId(jobs[j].postId))
    /\ [][\A j \in DOMAIN jobs :
            ( /\ PostExists(jobs[j].postId)
              /\ posts[jobs[j].postId].userId # Intruder
              /\ req'.route # req.route )
            => j \in DOMAIN jobs' /\ jobs'[j] = jobs[j]]_vars

\* C27 witness: the other user's scheduled post exists, with its job, and the
\* request on it has been answered 404
C27_Witness ==
    /\ req.route = "404"
    /\ req.user = Intruder
    /\ PostExists(req.postId)
    /\ posts[req.postId].userId = "u1"
    /\ posts[req.postId].status = "SCHEDULED"
    /\ KeyedJobId(req.postId) \in DOMAIN jobs

\* C29 (as claimed): the attempts of one job are started together: no result
\* is recorded while a platform of the post is still to be attempted.
C29_JointConcurrentFanOut ==
    \A j \in DOMAIN jobs :
        jobs[j].pc = "publish" => jobs[j].results = << >>

\* the order the claim gives the requests of one call: identity, then with
\* media the upload's registration and the bytes, then the post
ExpectedCalls(media) ==
    IF media
    THEN <<"me", "getUserId", "registerUpload", "readFile", "upload", "ugcPosts">>
    ELSE <<"me", "ugcPosts">>

\* position of request r in the log, 0 when it is not there
Position(log, r) ==
    IF \E i \in 1..Len(log) : log[i] = r
    THEN CHOOSE i \in 1..Len(log) : log[i] = r
    ELSE 0

\* C30: the requests of a call of publishToLinkedIn are, in order, a prefix
\* of: identity, then only with media the upload's registration and the
\* transfer of the bytes, then the post; the post is submitted only after an
\* upload that succeeded; a request that fails is the last of its call, the
\* turn's result is then an error and nothing is published; a call that
\* succeeded made every request.
C30_StrictStepOrder ==
    /\ [](\A j \in DOMAIN jobs :
            LET c == jobs[j].call IN
            /\ Len(c.log) <= Len(ExpectedCalls(c.media))
            /\ \A i \in 1..Len(c.log) : c.log[i] = ExpectedCalls(c.media)[i]
            /\ ( c.media /\ Position(c.log, "ugcPosts") > 0 )
                  => /\ Position(c.log, "registerUpload") > Position(c.log, "me")
                     /\ Position(c.log, "upload") > Position(c.log, "registerUpload")
                     /\ Position(c.log, "ugcPosts") > Position(c.log, "upload")
            /\ ~c.media => /\ Position(c.log, "registerUpload") = 0
                           /\ Position(c.log, "upload") = 0
            /\ c.outcome = "success" => c.log = ExpectedCalls(c.media))
    /\ [][\A j \in DOMAIN jobs :
            ( jobs[j].call.outcome = "running" /\ jobs'[j].call.outcome = "error" )
            => /\ Len(jobs'[j].results) = Len(jobs[j].results) + 1
               /\ Pushed(j).status = "error"
               /\ Pushed(j).platform = "LINKEDIN"
               /\ jobs'[j].pc # "linkedin"
               /\ remote' = remote]_vars
    /\ [][\A j \in DOMAIN jobs :
            ( jobs[j].call.outcome \in {"error", "success"}
              /\ jobs'[j].call # jobs[j].call )
            => jobs'[j].call.log = << >>]_vars

\* C30 witness: a post with media was published after all six requests, and
\* its job is completed
C30_Witness ==
    \E j \in DOMAIN jobs :
        /\ jobs[j].state = "completed"
        /\ jobs[j].call.media
        /\ jobs[j].call.outcome = "success"
        /\ Len(jobs[j].call.log) = 6
        /\ RemoteCount(remote, jobs[j].postId, "LINKEDIN") = 1
        /\ posts[jobs[j].postId].status = "PUBLISHED"

\* C31: a job whose execution failed for the n-th time, n below the attempt
\* ceiling, is delayed by BackoffDelay * 2^(n-1): one delay after the first
\* failure, twice that after the second; while it is delayed its due time
\* moves only with the clock, and it is picked up only once that time has
\* come.
C31_ExponentialBackoff ==
    /\ [][\A j \in DOMAIN jobs :
            ( jobs[j].state = "active" /\ jobs'[j].state = "delayed" )
            => /\ jobs'[j].attemptsMade = jobs[j].attemptsMade + 1
               /\ jobs'[j].attemptsMade \in 1..(Attempts - 1)
               /\ jobs'[j].attemptsMade = 1 => jobs'[j].runAt - Now = BackoffDelay
               /\ jobs'[j].attemptsMade = 2 => jobs'[j].runAt - Now = 2 * BackoffDelay]_vars
    /\ [][\A j \in DOMAIN jobs :
            ( jobs[j].state = "delayed" /\ jobs[j].attemptsMade > 0 )
            => /\ j \in DOMAIN jobs'
               /\ jobs'[j].state = "delayed"
                    => jobs'[j].runAt \in {jobs[j].runAt, jobs[j].runAt - 1}
               /\ jobs'[j].state # "delayed"
                    => jobs'[j].state = "active" /\ jobs[j].runAt <= Now]_vars

\* C31 witness: a job that failed twice was picked up for its third attempt
\* after its second delay
C31_Witness ==
    \E j \in DOMAIN jobs :
        /\ jobs[j].state = "active"
        /\ jobs[j].attemptsMade = 2

\* C32 (as claimed): a route never changes a post's status to PUBLISHED or
\* FAILED and never changes its publishedAt: a post is created DRAFT or
\* SCHEDULED without publishedAt, and the write of an update or of a
\* publish-now changes the status only to DRAFT or SCHEDULED.
C32_RoutesWriteNoTerminalStatus ==
    [][/\ \A p \in DOMAIN posts' \ DOMAIN posts :
            /\ posts'[p].status \in {"DRAFT", "SCHEDULED"}
            /\ posts'[p].publishedAt = NoTime
       /\ ( req.route \in {"update", "publish"} /\ req' = NoReq
            /\ req.postId \in DOMAIN posts /\ req.postId \in DOMAIN posts' )
          => /\ posts'[req.postId].publishedAt = posts[req.postId].publishedAt
             /\ posts'[req.postId].status # posts[req.postId].status
                  => posts'[req.postId].status \in {"DRAFT", "SCHEDULED"}]_vars

\* C33: an update or a publish-now that finds the post PUBLISHED is answered
\* 400: it never goes on to its write or to the queue, and from the lookup to
\* the answer the request changes nothing of the post table, the queue or
\* what was published.
C33_PublishedIsRejected ==
    /\ [][( req = NoReq /\ req' # NoReq )
            => /\ PostExists(req'.postId)
               /\ posts[req'.postId].status = "PUBLISHED" <=> req'.route = "400"
               /\ req'.route = "400"
                    => /\ posts' = posts
                       /\ jobs' = jobs
                       /\ remote' = remote
                       /\ nextJobId' = nextJobId]_vars
    /\ [][( req.route = "400" /\ req' # req )
            => /\ req' = NoReq
               /\ posts' = posts
               /\ jobs' = jobs
               /\ remote' = remote]_vars

\* C33 witness: a request on a PUBLISHED post whose job is completed has been
\* answered 400
C33_Witness ==
    /\ req.route = "400"
    /\ PostExists(req.postId)
    /\ posts[req.postId].status = "PUBLISHED"
    /\ posts[req.postId].publishedAt # NoTime
    /\ \E j \in DOMAIN jobs : jobs[j].postId = req.postId /\ jobs[j].state = "completed"

\* C34 (as claimed): a post whose status is PUBLISHED keeps that status and
\* its publishedAt for as long as it exists.
C34_PublishedIsTerminal ==
    [][\A p \in DOMAIN posts :
          ( posts[p].status = "PUBLISHED" /\ p \in DOMAIN posts' )
          => /\ posts'[p].status = "PUBLISHED"
             /\ posts'[p].publishedAt # NoTime]_vars

\* C35 (as claimed): a post has a publishedAt exactly when its status is
\* PUBLISHED.
C35_PublishedAtTracksStatus ==
    \A p \in DOMAIN posts :
        posts[p].publishedAt # NoTime <=> posts[p].status = "PUBLISHED"

\* C36 (as claimed): a publisher is called for a post only while the post's
\* status is SCHEDULED: never for a post that is DRAFT.
C36_OnlyScheduledPublished ==
    [][\A j \in DOMAIN jobs :
          ( Turn(j) /\ Pushed(j).account # "-" /\ PostExists(jobs[j].postId) )
          => posts[jobs[j].postId].status = "SCHEDULED"]_vars

\* C37 (as claimed): the results of an execution are for distinct platforms,
\* and when the loop is left there are as many as the post has distinct
\* platforms.
C37_OneAttemptPerPlatform ==
    \A j \in DOMAIN jobs :
        LET rs == jobs[j].results IN
        /\ \A i, k \in 1..Len(rs) : i # k => rs[i].platform # rs[k].platform
        /\ jobs[j].pc = "update"
             => Len(rs) = Cardinality({jobs[j].snap.platforms[i] :
                                          i \in 1..Len(jobs[j].snap.platforms)})

\* C38 (as claimed): under fair scheduling, with the database answering, a
\* post that has a pending job comes to status PUBLISHED or FAILED (unless it
\* is deleted), a pending job comes to completed or failed, and no post stays
\* SCHEDULED forever.
C38_Convergence ==
    /\ \A p \in 1..MaxPosts :
          ( PostExists(p) /\ PendingJobsOf(p) # {} )
             ~> ( ~PostExists(p) \/ posts[p].status \in {"PUBLISHED", "FAILED"} )
    /\ \A j \in JobIds :
          ( j \in DOMAIN jobs /\ IsPending(j) )
             ~> ( j \in DOMAIN jobs /\ jobs[j].state \in {"completed", "failed"} )
    /\ \A p \in 1..MaxPosts :
          ~<>[](PostExists(p) /\ posts[p].status = "SCHEDULED")

====
